---- MODULE Spec2Model ----
(***************************************************************************)
(* Credential-based authentication of the full-stack boilerplates.         *)
(*                                                                         *)
(* Two server variants carry a token Guard:                                *)
(*   "bcrypt": the Flask app of "ai_fullstack_boilerplate (3).jsx"         *)
(*             (bcrypt hashes, tokens with a 30 minute exp claim);         *)
(*   "plain" : the Flask app of unnamed/part_001 (auth.py, app.py:         *)
(*             plaintext passwords, tokens without an exp claim).          *)
(* The clients are the React App of unnamed/part_000 (src/App.js) and the  *)
(* Login/Dashboard/App components that come with the bcrypt variant.       *)
(* The FastAPI backend the React App is written for is not among the       *)
(* sources; its Guard and login ("fastapi") follow the specification.      *)
(*                                                                         *)
(* Time is counted in minutes and observed at the instants Times.         *)
(* A header value is a sequence of items (whitespace, scheme words,        *)
(* tokens); a token is the record of its dot-separated segments; an HS256  *)
(* signature is the record of what was signed and the key that signed it.  *)
(***************************************************************************)
EXTENDS Integers, Sequences, FiniteSets, TLC

VARIABLES
  variant,  \* which server variant runs
  secret,   \* the signing secret the running server process holds
  now,      \* the clock, in minutes
  users,    \* the users table
  issued,   \* the tokens login has returned, with their time of issuance
  logs,     \* the logs table: the user of each row predict inserted
  resp,     \* the request the server handled last and its response
  reg,      \* the register handlers in progress, one per worker
  wlock,    \* the worker holding the database write lock, 0 when free
  app,      \* React App component state: token, username, prediction
  ls,       \* localStorage: token, username
  net,      \* the App's predict calls in flight: requests and responses
  ev        \* what the client did last at the current instant

vars == <<variant, secret, now, users, issued, logs, resp, reg, wlock, app, ls, net, ev>>
config == <<variant, secret>>
racevars == <<reg, wlock>>
clientvars == <<app, ls, net, ev>>

(***************************************************************************)
(* Bounds and program constants                                            *)
(***************************************************************************)
Variants == {"bcrypt", "plain"}
Usernames == {"alice", "bob"}
Passwords == {"secret123", "wrongpass"}
Salts == {"s1", "s2"}

\* timedelta(minutes=30) of the bcrypt variant's login
TTL == 30
\* the instants at which the clock is observed: around one TTL after 0 and
\* after 1, and well beyond
MaxClock == 2 * TTL
Times == {0, 1, TTL - 1, TTL, TTL + 1, MaxClock}
MaxTokens == 1
MaxLogs == 1
NProcs == 2
MaxSessions == 2
MaxInflight == 1
MaxRotations == 1
Procs == 1..NProcs

\* the values later deployments configure, each one new
Rotations == <<"rotated1", "rotated2", "rotated3">>

\* how many times the secret has been replaced
Rotated(s) == IF \E k \in 1..Len(Rotations) : Rotations[k] = s
              THEN CHOOSE k \in 1..Len(Rotations) : Rotations[k] = s
              ELSE 0

\* the secret as configured in the source: the value a process starts with
SECRET_KEY(v) == IF v = "bcrypt" THEN "your_jwt_secret_key" ELSE "mysecret"

(***************************************************************************)
(* Password hasher                                                         *)
(***************************************************************************)
\* bcrypt.hashpw(password, salt): one-way, the salt is part of the hash
hashpw(p, salt) == [alg |-> "bcrypt", salt |-> salt, of |-> p]
\* bcrypt.checkpw(password, hashed): re-hash with the salt found in the hash
checkpw(p, h) == h.alg = "bcrypt" /\ hashpw(p, h.salt) = h
\* the plain variant stores the password column as given
plaintext(p) == [alg |-> "none", salt |-> "", of |-> p]

(***************************************************************************)
(* Tokens (PyJWT, HS256)                                                   *)
(***************************************************************************)
\* HMAC of the signing input under a key
Sign(alg, ckey, sub, hasexp, exp, key) ==
  [alg |-> alg, ckey |-> ckey, sub |-> sub, hasexp |-> hasexp, exp |-> exp, key |-> key]

NoSig == Sign("", "", "", FALSE, 0, "")

\* jwt.encode(payload, key): <header>.<claims>.<signature>
jwt_encode(ckey, sub, hasexp, exp, key) ==
  [parts |-> 3, alg |-> "HS256", ckey |-> ckey, sub |-> sub, hasexp |-> hasexp,
   exp |-> exp, sig |-> Sign("HS256", ckey, sub, hasexp, exp, key)]

NoTok == [parts |-> 0, alg |-> "", ckey |-> "", sub |-> "", hasexp |-> FALSE,
          exp |-> 0, sig |-> NoSig]

\* a string without dots
Garbage == [NoTok EXCEPT !.parts = 1]

\* an expiry test that still accepts at the instant of exp
Expired_after(tok, t) == tok.hasexp /\ tok.exp < t

\* PyJWT's expiry test: the exp claim is validated only when present
Expired(tok, t) == tok.hasexp /\ tok.exp <= t

\* jwt.decode with the signature left unverified
jwt_decode_unverified(tok, key, t) ==
  IF tok.parts # 3 THEN "DecodeError"
  ELSE IF tok.alg # "HS256" THEN "InvalidAlgorithmError"
  ELSE IF Expired(tok, t) THEN "ExpiredSignatureError"
  ELSE "none"

\* jwt.decode with the claims validated before the signature
jwt_decode_claims_first(tok, key, t) ==
  IF tok.parts # 3 THEN "DecodeError"
  ELSE IF tok.alg # "HS256" THEN "InvalidAlgorithmError"
  ELSE IF Expired(tok, t) THEN "ExpiredSignatureError"
  ELSE IF tok.sig # Sign(tok.alg, tok.ckey, tok.sub, tok.hasexp, tok.exp, key)
       THEN "InvalidSignatureError"
  ELSE "none"

\* jwt.decode verifying with the secret of the source, whatever key it is given
jwt_decode_default_key(tok, key, t) ==
  IF tok.parts # 3 THEN "DecodeError"
  ELSE IF tok.alg # "HS256" THEN "InvalidAlgorithmError"
  ELSE IF tok.sig # Sign(tok.alg, tok.ckey, tok.sub, tok.hasexp, tok.exp,
                         SECRET_KEY(variant))
       THEN "InvalidSignatureError"
  ELSE IF Expired(tok, t) THEN "ExpiredSignatureError"
  ELSE "none"

\* jwt.decode(token, key, algorithms=["HS256"]): the exception it raises, or "none"
jwt_decode(tok, key, t) ==
  IF tok.parts # 3 THEN "DecodeError"
  ELSE IF tok.alg # "HS256" THEN "InvalidAlgorithmError"
  ELSE IF tok.sig # Sign(tok.alg, tok.ckey, tok.sub, tok.hasexp, tok.exp, key)
       THEN "InvalidSignatureError"
  ELSE IF Expired(tok, t) THEN "ExpiredSignatureError"
  ELSE "none"

\* auth.py create_token of the plain variant: no exp claim
create_token(username) == jwt_encode("user", username, FALSE, 0, secret)

\* the jwt.encode call in the bcrypt variant's login
login_token(username, t) ==
  jwt_encode("username", username, TRUE, t + TTL, secret)

(***************************************************************************)
(* Authorization header values                                             *)
(***************************************************************************)
SP == [k |-> "sp", word |-> "", tok |-> NoTok]
Word(w) == [k |-> "word", word |-> w, tok |-> NoTok]
TokItem(tok) == [k |-> "tok", word |-> "", tok |-> tok]

NoHeader == [present |-> FALSE, val |-> <<>>]
Header(items) == [present |-> TRUE, val |-> items]
Bearer(tok) == Header(<<Word("Bearer"), SP, TokItem(tok)>>)

\* str.split(): the whitespace-separated words
split(val) == SelectSeq(val, LAMBDA it : it.k # "sp")

\* a word handed to jwt.decode: a scheme word is a string without dots
AsToken(it) == IF it.k = "tok" THEN it.tok ELSE Garbage

(***************************************************************************)
(* Responses                                                               *)
(***************************************************************************)
\* resp holds the request just handled and the response to it
Resp(op, status, body, exc, ran, user, token, hdr, u, p) ==
  [op |-> op, status |-> status, body |-> body, exc |-> exc, ran |-> ran,
   user |-> user, token |-> token, hdr |-> hdr, u |-> u, p |-> p]

NoResp == Resp("none", 0, "", "none", FALSE, "", NoTok, NoHeader, "", "")

\* what the Guard decided: the response it returns, the exception that made it
\* reject, and whether it called the wrapped function (and with which user)
Verdict(status, body, exc, ran, user) ==
  [status |-> status, body |-> body, exc |-> exc, ran |-> ran, user |-> user]

(***************************************************************************)
(* Token Verifier (Guard)                                                  *)
(***************************************************************************)
\* token_required whose except branch does not return
token_required_fallthrough(h, t) ==
  IF ~h.present \/ h.val = <<>>
  THEN Verdict(403, "Token is missing", "none", FALSE, "")
  ELSE IF Len(split(h.val)) < 2
  THEN Verdict(403, "Token is invalid", "IndexError", FALSE, "")
  ELSE LET token == AsToken(split(h.val)[2])
           exc == jwt_decode(token, secret, t)
       IN Verdict(200, "", exc, TRUE, token.sub)

\* token_required of the bcrypt variant
token_required_bcrypt(h, t) ==
  IF ~h.present \/ h.val = <<>>
  THEN Verdict(403, "Token is missing", "none", FALSE, "")
  ELSE IF Len(split(h.val)) < 2
  THEN Verdict(403, "Token is invalid", "IndexError", FALSE, "")
  ELSE LET token == AsToken(split(h.val)[2])
           exc == jwt_decode(token, secret, t)
       IN IF exc # "none"
          THEN Verdict(403, "Token is invalid", exc, FALSE, "")
          ELSE IF token.ckey # "username"
          THEN Verdict(403, "Token is invalid", "KeyError", FALSE, "")
          ELSE Verdict(200, "", "none", TRUE, token.sub)

\* token_required of the plain variant (auth.py): the split is outside the try
token_required_plain(h, t) ==
  IF ~h.present
  THEN Verdict(401, "Token is missing", "none", FALSE, "")
  ELSE IF Len(split(h.val)) < 2
  THEN Verdict(500, "Internal Server Error", "IndexError", FALSE, "")
  ELSE LET token == AsToken(split(h.val)[2])
           exc == jwt_decode(token, secret, t)
       IN IF exc # "none"
          THEN Verdict(403, "Invalid token", exc, FALSE, "")
          ELSE IF token.ckey # "user"
          THEN Verdict(403, "Invalid token", "KeyError", FALSE, "")
          ELSE Verdict(200, "", "none", TRUE, token.sub)

\* the Guard of the backend the React App calls (FastAPI, /api/predict),
\* which is not in the sources: the four checks in their order, each failure
\* answered 401, a token valid while now <= expires_at
token_required_fastapi(h, t) ==
  IF ~h.present \/ h.val = <<>>
  THEN Verdict(401, "MissingToken", "none", FALSE, "")
  ELSE IF Len(split(h.val)) # 2 \/ split(h.val)[1] # Word("Bearer")
          \/ AsToken(split(h.val)[2]).parts # 3
  THEN Verdict(401, "MalformedToken", "DecodeError", FALSE, "")
  ELSE LET token == AsToken(split(h.val)[2])
       IN IF token.sig # Sign(token.alg, token.ckey, token.sub, token.hasexp,
                              token.exp, secret)
          THEN Verdict(401, "InvalidSignature", "InvalidSignatureError", FALSE, "")
          ELSE IF token.hasexp /\ t > token.exp
          THEN Verdict(401, "ExpiredToken", "ExpiredSignatureError", FALSE, "")
          ELSE Verdict(200, "", "none", TRUE, token.sub)

\* a guard that keeps one session per user: a token is refused once a later
\* login of its subject has issued another one
token_required_latest_only(v, h, t) ==
  LET g == IF v = "bcrypt" THEN token_required_bcrypt(h, t) ELSE token_required_plain(h, t)
  IN IF g.ran /\ \E i \in issued : /\ i.tok.sub = g.user
                                    /\ i.tok # AsToken(split(h.val)[2])
     THEN Verdict(403, "Token is invalid", "none", FALSE, "")
     ELSE g

token_required(v, h, t) ==
  IF v = "bcrypt" THEN token_required_bcrypt(h, t)
  ELSE IF v = "plain" THEN token_required_plain(h, t)
  ELSE token_required_fastapi(h, t)

\* the failure taxonomy: which of the Guard's checks rejected the request
GuardKind(g) ==
  IF g.ran THEN "Accepted"
  ELSE IF g.status = 500 THEN "Unhandled"
  ELSE IF g.exc = "none" THEN "MissingToken"
  ELSE IF g.exc \in {"IndexError", "DecodeError", "InvalidAlgorithmError", "KeyError"}
       THEN "MalformedToken"
  ELSE IF g.exc = "InvalidSignatureError" THEN "InvalidSignature"
  ELSE "ExpiredToken"

(***************************************************************************)
(* Credential Store: the users table, username TEXT UNIQUE                 *)
(***************************************************************************)
Row(id, u, pw) == [id |-> id, username |-> u, password |-> pw]

Taken(tbl, u) == \E r \in tbl : r.username = u

\* INSERT without the UNIQUE constraint on username
insert_no_unique(tbl, u, pw) ==
  [ok |-> TRUE, tbl |-> tbl \cup {Row(Cardinality(tbl) + 1, u, pw)}]

\* INSERT OR REPLACE: a second insert overwrites the row
insert_or_replace(tbl, u, pw) ==
  [ok |-> TRUE,
   tbl |-> {r \in tbl : r.username # u} \cup {Row(Cardinality(tbl) + 1, u, pw)}]

\* INSERT INTO users (username, password): fails on the UNIQUE constraint
insert(tbl, u, pw) ==
  IF Taken(tbl, u)
  THEN [ok |-> FALSE, tbl |-> tbl]
  ELSE [ok |-> TRUE, tbl |-> tbl \cup {Row(Cardinality(tbl) + 1, u, pw)}]

\* SELECT * FROM users WHERE username = ?
select(tbl, u) == {r \in tbl : r.username = u}

Outcome(tbl, status, body, token) ==
  [tbl |-> tbl, status |-> status, body |-> body, token |-> token]

\* register of the bcrypt variant
register(tbl, u, p, salt) ==
  LET ins == insert(tbl, u, hashpw(p, salt))
  IN IF ins.ok THEN Outcome(ins.tbl, 201, "User registered", NoTok)
     ELSE Outcome(tbl, 409, "User already exists", NoTok)

\* register_user of the plain variant (auth.py)
register_user(tbl, u, p) ==
  LET ins == insert(tbl, u, plaintext(p))
  IN IF ins.ok THEN Outcome(ins.tbl, 200, "User registered successfully", NoTok)
     ELSE Outcome(tbl, 400, "Username already exists", NoTok)

\* login of the bcrypt variant
login_bcrypt(tbl, u, p, t) ==
  IF \E r \in select(tbl, u) : checkpw(p, r.password)
  THEN Outcome(tbl, 200, "token", login_token(u, t))
  ELSE Outcome(tbl, 401, "Invalid credentials", NoTok)

\* login of the plain variant (app.py): WHERE username=? AND password=?
login_plain(tbl, u, p) ==
  IF \E r \in tbl : r.username = u /\ r.password = plaintext(p)
  THEN Outcome(tbl, 200, "token", create_token(u))
  ELSE Outcome(tbl, 403, "Invalid credentials", NoTok)

\* register of the bcrypt variant when sqlite3 raises OperationalError (the
\* database cannot be opened or written): the bare except answers 409
register_unavailable(tbl, u, p, salt) ==
  Outcome(tbl, 409, "User already exists", NoTok)

\* register_user of the plain variant when sqlite3 raises OperationalError:
\* only IntegrityError is caught, Flask answers 500
register_user_unavailable(tbl, u, p) ==
  Outcome(tbl, 500, "Internal Server Error", NoTok)

\* login of either variant when sqlite3 raises OperationalError: nothing
\* catches it, Flask answers 500
login_unavailable(tbl, u, p) ==
  Outcome(tbl, 500, "Internal Server Error", NoTok)

\* predict writing its log row without the user it was called with
predict_anonymous(lg, current_user) == Append(lg, "")

\* login of the backend the React App calls, which is not in the sources:
\* the password is verified through the hasher, the token names the user and
\* expires TTL after its issuance
login_fastapi(tbl, u, p, t) ==
  IF \E r \in select(tbl, u) : checkpw(p, r.password)
  THEN Outcome(tbl, 200, "token", jwt_encode("sub", u, TRUE, t + TTL, secret))
  ELSE Outcome(tbl, 401, "Invalid credentials", NoTok)

\* the wrapped business operation: runs with the Guard's user, inserts a log row
predict(lg, current_user) == Append(lg, current_user)

(***************************************************************************)
(* Requests the environment can send                                       *)
(***************************************************************************)
\* what an attacker can make of a token without knowing the secret
Forgeries(tok) ==
  { [tok EXCEPT !.sig.key = "attacker"],
    [tok EXCEPT !.exp = tok.exp + TTL, !.hasexp = TRUE],
    [tok EXCEPT !.parts = 2],
    [tok EXCEPT !.alg = "none", !.sig = NoSig] }

CandidateTokens ==
  {Garbage} \cup {i.tok : i \in issued} \cup UNION {Forgeries(i.tok) : i \in issued}
    \cup {jwt_encode("username", "alice", TRUE, MaxClock + TTL, "attacker")}

HeaderInputs ==
  { NoHeader, Header(<<>>), Header(<<SP>>), Header(<<Word("Bearer")>>),
    Header(<<Word("Bearer"), SP>>) }
    \cup {Bearer(t) : t \in CandidateTokens}
    \cup {Header(<<Word("Token"), SP, TokItem(i.tok)>>) : i \in issued}
    \cup {Header(<<TokItem(i.tok)>>) : i \in issued}
    \cup {Header(<<Word("Bearer"), SP, TokItem(i.tok), SP, Word("x")>>) : i \in issued}

(***************************************************************************)
(* Server actions                                                          *)
(***************************************************************************)
Idle == [pc |-> "idle", u |-> "", p |-> "", pw |-> plaintext(""), rows |-> {},
         status |-> 0, body |-> ""]

Session(token, username, prediction) ==
  [token |-> token, username |-> username, prediction |-> prediction]

Storage(token, username) == [token |-> token, username |-> username]

Init ==
  /\ variant \in Variants
  /\ secret = SECRET_KEY(variant)
  /\ now = 0
  /\ users = {}
  /\ issued = {}
  /\ logs = <<>>
  /\ resp = NoResp
  /\ reg = [i \in Procs |-> Idle]
  /\ wlock = 0
  /\ app = Session(NoTok, "", "")
  /\ ls = Storage(NoTok, "")
  /\ net = {}
  /\ ev = "none"

Tick ==
  /\ \E t \in Times : t > now /\ now' = t
  /\ resp' = NoResp
  /\ ev' = "none"
  /\ UNCHANGED <<config, users, issued, logs, racevars, app, ls, net>>

Register(u, p, salt) ==
  LET out == IF variant = "bcrypt" THEN register(users, u, p, salt)
             ELSE register_user(users, u, p)
  IN /\ users' = out.tbl
     /\ resp' = Resp("register", out.status, out.body, "none", FALSE, "", NoTok,
                     NoHeader, u, p)
     /\ UNCHANGED <<config, now, issued, logs, racevars, clientvars>>

Login(u, p) ==
  LET out == IF variant = "bcrypt" THEN login_bcrypt(users, u, p, now)
             ELSE login_plain(users, u, p)
      rec == [tok |-> out.token, iat |-> now]
  IN /\ out.status = 200 => (rec \in issued \/ Cardinality(issued) < MaxTokens)
     /\ issued' = IF out.status = 200 THEN issued \cup {rec} ELSE issued
     /\ resp' = Resp("login", out.status, out.body, "none", FALSE, "", out.token,
                     NoHeader, u, p)
     /\ UNCHANGED <<config, now, users, logs, racevars, clientvars>>

Predict(h) ==
  LET g == token_required(variant, h, now)
  IN /\ g.ran => Len(logs) < MaxLogs
     /\ logs' = IF g.ran THEN predict(logs, g.user) ELSE logs
     /\ resp' = Resp("predict", g.status, g.body, g.exc, g.ran, g.user, NoTok,
                     h, "", "")
     /\ UNCHANGED <<config, now, users, issued, racevars, clientvars>>

\* registration and login against an initially empty store
Next ==
  \/ Tick
  \/ \E u \in Usernames, p \in Passwords, salt \in Salts : Register(u, p, salt)
  \/ \E u \in Usernames, p \in Passwords : Login(u, p)

Spec == Init /\ [][Next]_vars

\* register while the database is unavailable
RegisterUnavailable(u, p, salt) ==
  LET out == IF variant = "bcrypt" THEN register_unavailable(users, u, p, salt)
             ELSE register_user_unavailable(users, u, p)
  IN /\ users' = out.tbl
     /\ resp' = Resp("register", out.status, out.body, "OperationalError", FALSE, "",
                     out.token, NoHeader, u, p)
     /\ UNCHANGED <<config, now, issued, logs, racevars, clientvars>>

\* login while the database is unavailable
LoginUnavailable(u, p) ==
  LET out == login_unavailable(users, u, p)
  IN /\ users' = out.tbl
     /\ resp' = Resp("login", out.status, out.body, "OperationalError", FALSE, "",
                     out.token, NoHeader, u, p)
     /\ UNCHANGED <<config, now, issued, logs, racevars, clientvars>>

\* registration and login against a store that may fail at any request
NextOutage ==
  \/ Next
  \/ \E u \in Usernames, p \in Passwords, salt \in Salts : RegisterUnavailable(u, p, salt)
  \/ \E u \in Usernames, p \in Passwords : LoginUnavailable(u, p)

SpecOutage == Init /\ [][NextOutage]_vars

\* a server on which alice registered before
Registered(v) ==
  IF v = "bcrypt" THEN register({}, "alice", "secret123", "s1").tbl
  ELSE register_user({}, "alice", "secret123").tbl

InitRegistered ==
  /\ variant \in Variants
  /\ secret = SECRET_KEY(variant)
  /\ now = 0
  /\ users = Registered(variant)
  /\ issued = {}
  /\ logs = <<>>
  /\ resp = NoResp
  /\ reg = [i \in Procs |-> Idle]
  /\ wlock = 0
  /\ app = Session(NoTok, "", "")
  /\ ls = Storage(NoTok, "")
  /\ net = {}
  /\ ev = "none"

\* login and calls of the protected operation with any Authorization header
NextGuard ==
  \/ Tick
  \/ \E u \in Usernames, p \in Passwords : Login(u, p)
  \/ \E h \in HeaderInputs : Predict(h)

SpecGuard == InitRegistered /\ [][NextGuard]_vars

\* the server process is started again: SECRET_KEY is read anew, from the
\* same configuration or from a changed one; the database file stays
Restart ==
  /\ \E change \in BOOLEAN :
       /\ change => Rotated(secret) < MaxRotations
       /\ secret' = IF change THEN Rotations[Rotated(secret) + 1] ELSE secret
  /\ resp' = [NoResp EXCEPT !.op = "restart"]
  /\ UNCHANGED <<variant, now, users, issued, logs, racevars, clientvars>>

\* login, calls that present a token, and restarts
NextRotate ==
  \/ Tick
  \/ \E u \in Usernames, p \in Passwords : Login(u, p)
  \/ \E tok \in CandidateTokens : Predict(Bearer(tok))
  \/ Restart

SpecRotate == InitRegistered /\ [][NextRotate]_vars

(***************************************************************************)
(* Concurrent register requests: one handler per worker, each with its own *)
(* sqlite3 connection.  The INSERT opens a write transaction (it waits     *)
(* while another connection holds the write lock) and checks the UNIQUE    *)
(* constraint; commit publishes the row and releases the lock; a handler   *)
(* that raised drops its connection, and with it the lock, when it returns.*)
(***************************************************************************)
\* read the request; the bcrypt variant hashes the password
RegBegin(i, u, p, salt) ==
  /\ reg[i].pc = "idle"
  /\ reg' = [reg EXCEPT ![i] =
               [Idle EXCEPT !.pc = "ready", !.u = u, !.p = p,
                  !.pw = IF variant = "bcrypt" THEN hashpw(p, salt) ELSE plaintext(p)]]
  /\ UNCHANGED <<config, now, users, issued, logs, resp, wlock, clientvars>>

\* connect and execute the INSERT
RegInsert(i) ==
  /\ reg[i].pc = "ready"
  /\ wlock = 0
  /\ LET ins == insert(users, reg[i].u, reg[i].pw)
     IN reg' = [reg EXCEPT ![i].pc = IF ins.ok THEN "inserted" ELSE "raised",
                           ![i].rows = ins.tbl]
  /\ wlock' = i
  /\ UNCHANGED <<config, now, users, issued, logs, resp, clientvars>>

\* conn.commit()
RegCommit(i) ==
  /\ reg[i].pc = "inserted"
  /\ users' = reg[i].rows
  /\ wlock' = 0
  /\ reg' = [reg EXCEPT ![i].pc = "committed"]
  /\ UNCHANGED <<config, now, issued, logs, resp, clientvars>>

\* conn.close() and the success response, or the except branch
RegRespond(i) ==
  /\ reg[i].pc \in {"committed", "raised"}
  /\ LET out == IF reg[i].pc = "committed"
                THEN IF variant = "bcrypt" THEN Outcome(users, 201, "User registered", NoTok)
                     ELSE Outcome(users, 200, "User registered successfully", NoTok)
                ELSE IF variant = "bcrypt" THEN Outcome(users, 409, "User already exists", NoTok)
                     ELSE Outcome(users, 400, "Username already exists", NoTok)
     IN reg' = [reg EXCEPT ![i].pc = "done", ![i].status = out.status,
                           ![i].body = out.body]
  /\ wlock' = IF wlock = i THEN 0 ELSE wlock
  /\ UNCHANGED <<config, now, users, issued, logs, resp, clientvars>>

NextRace ==
  \/ \E i \in Procs, u \in Usernames, p \in Passwords, salt \in Salts : RegBegin(i, u, p, salt)
  \/ \E i \in Procs : RegInsert(i)
  \/ \E i \in Procs : RegCommit(i)
  \/ \E i \in Procs : RegRespond(i)

SpecRace == Init /\ [][NextRace]_vars

(***************************************************************************)
(* Client Session Manager: the React App (src/App.js of part_000).         *)
(* The App is used against a server that already has a registered user;    *)
(* its Login component posts the credentials and hands the token of a      *)
(* successful login to handleLogin.                                        *)
(***************************************************************************)
Client(a, l) == [app |-> a, ls |-> l]

\* handleLogin without the two setItem calls
handleLogin_state_only(a, l, token, username) ==
  Client([a EXCEPT !.token = token, !.username = username], l)

\* handleLogin(token, username)
handleLogin(a, l, token, username) ==
  Client([a EXCEPT !.token = token, !.username = username], Storage(token, username))

\* logout() without the two removeItem calls
logout_keep_storage(a, l) ==
  Client([a EXCEPT !.token = NoTok, !.username = ""], l)

\* logout() without setUsername(null) and removeItem('username')
logout_keep_username(a, l) ==
  Client([a EXCEPT !.token = NoTok], Storage(NoTok, l.username))

\* logout()
logout(a, l) ==
  Client([a EXCEPT !.token = NoTok, !.username = ""], Storage(NoTok, ""))

\* useState(localStorage.getItem(...)): the state of a freshly mounted App
mount(l) == Client(Session(l.token, l.username, ""), l)

\* Date.now() > payload.exp * 1000; a payload without exp gives NaN, and no
\* comparison with NaN is true
PastExpiry(tok, t) == tok.hasexp /\ t > tok.exp

\* checkTokenExpiration without the call of logout
checkTokenExpiration_skip(a, l, t) == Client(a, l)

\* checkTokenExpiration, run by the effect when the App mounts
checkTokenExpiration(a, l, t) ==
  IF l.token = NoTok THEN Client(a, l)
  ELSE IF PastExpiry(l.token, t) THEN logout(a, l)
  ELSE Client(a, l)

\* the continuation of handlePredict after the fetch: only a 401 logs out
handlePredict(a, l, status) ==
  IF status = 401 THEN logout(a, l)
  ELSE IF status = 500 THEN Client(a, l)
  ELSE Client([a EXCEPT !.prediction = IF status = 200 THEN "prediction" ELSE "undefined"], l)

Msg(stage, hdr, g) ==
  [stage |-> stage, hdr |-> hdr, status |-> g.status, body |-> g.body, exc |-> g.exc,
   ran |-> g.ran, user |-> g.user]

\* the Login form: POST /login, then onLogin(token, username) on success
AppLogin(u, p) ==
  LET out == IF variant = "bcrypt" THEN login_bcrypt(users, u, p, now)
             ELSE IF variant = "plain" THEN login_plain(users, u, p)
             ELSE login_fastapi(users, u, p, now)
      rec == [tok |-> out.token, iat |-> now]
      c == handleLogin(app, ls, out.token, u)
  IN /\ app.token = NoTok
     /\ out.status = 200
     /\ Cardinality(issued \cup {rec}) <= MaxSessions
     /\ issued' = issued \cup {rec}
     /\ app' = c.app
     /\ ls' = c.ls
     /\ ev' = "login"
     /\ UNCHANGED <<config, now, users, logs, resp, racevars, net>>

\* the Logout button
AppLogout ==
  LET c == logout(app, ls)
  IN /\ app.token # NoTok
     /\ app' = c.app
     /\ ls' = c.ls
     /\ ev' = "logout"
     /\ UNCHANGED <<config, now, users, issued, logs, resp, racevars, net>>

\* the Predict button: handlePredict up to its await
AppPredict ==
  /\ app.token # NoTok
  /\ Cardinality(net) < MaxInflight
  /\ net' = net \cup {Msg("req", Bearer(app.token), Verdict(0, "", "none", FALSE, ""))}
  /\ ev' = "sent"
  /\ UNCHANGED <<config, now, users, issued, logs, resp, racevars, app, ls>>

\* the server handles a predict call of the App
ServePredict(m) ==
  LET g == token_required(variant, m.hdr, now)
  IN /\ m.stage = "req"
     /\ g.ran => Len(logs) < MaxLogs
     /\ logs' = IF g.ran THEN predict(logs, g.user) ELSE logs
     /\ net' = (net \ {m}) \cup {Msg("resp", m.hdr, g)}
     /\ UNCHANGED <<config, now, users, issued, resp, racevars, app, ls, ev>>

\* the response arrives: handlePredict after its await
AppReceive(m) ==
  LET c == handlePredict(app, ls, m.status)
  IN /\ m.stage = "resp"
     /\ net' = net \ {m}
     /\ app' = c.app
     /\ ls' = c.ls
     /\ ev' = IF m.status = 401 THEN "rejected" ELSE "response"
     /\ UNCHANGED <<config, now, users, issued, logs, resp, racevars>>

\* the fetch fails (network error, timeout): the await throws and nothing
\* catches it
AppNetFail(m) ==
  /\ net' = net \ {m}
  /\ ev' = "neterror"
  /\ UNCHANGED <<config, now, users, issued, logs, resp, racevars, app, ls>>

\* the page is loaded again: the state is initialised from localStorage, the
\* pending calls of the old page are gone, and the effect runs
\* checkTokenExpiration
AppReload ==
  LET m == mount(ls)
      c == checkTokenExpiration(m.app, m.ls, now)
  IN /\ app' = c.app
     /\ ls' = c.ls
     /\ net' = {}
     /\ ev' = IF c.ls # ls THEN "expired" ELSE "reload"
     /\ UNCHANGED <<config, now, users, issued, logs, resp, racevars>>

NextClient ==
  \/ Tick
  \/ \E u \in Usernames, p \in Passwords : AppLogin(u, p)
  \/ AppLogout
  \/ AppPredict
  \/ \E m \in net : ServePredict(m)
  \/ \E m \in net : AppReceive(m)
  \/ \E m \in net : AppNetFail(m)
  \/ AppReload

SpecClient == InitRegistered /\ [][NextClient]_vars

\* a client that keeps being used: while logged in the user keeps pressing
\* Predict, the server answers every call and every answer is delivered
SpecClientLive ==
  /\ SpecClient
  /\ WF_vars(AppPredict)
  /\ WF_vars(\E m \in net : ServePredict(m))
  /\ WF_vars(\E m \in net : AppReceive(m))

\* the React App with the backend it is written for: JWT_SECRET from .env,
\* one registered user
InitApi ==
  /\ variant = "fastapi"
  /\ secret = "your-secret"
  /\ now = 0
  /\ users = register({}, "alice", "secret123", "s1").tbl
  /\ issued = {}
  /\ logs = <<>>
  /\ resp = NoResp
  /\ reg = [i \in Procs |-> Idle]
  /\ wlock = 0
  /\ app = Session(NoTok, "", "")
  /\ ls = Storage(NoTok, "")
  /\ net = {}
  /\ ev = "none"

SpecApi == InitApi /\ [][NextClient]_vars

\* the stores the App's server may run on: alice registered, or alice and
\* carol, a user who takes no part in what follows
Stores(v) ==
  { Registered(v),
    IF v = "bcrypt" THEN register(Registered(v), "carol", "secret123", "s2").tbl
    ELSE register_user(Registered(v), "carol", "secret123").tbl }

InitStores ==
  /\ variant \in Variants
  /\ secret = SECRET_KEY(variant)
  /\ now = 0
  /\ users \in Stores(variant)
  /\ issued = {}
  /\ logs = <<>>
  /\ resp = NoResp
  /\ reg = [i \in Procs |-> Idle]
  /\ wlock = 0
  /\ app = Session(NoTok, "", "")
  /\ ls = Storage(NoTok, "")
  /\ net = {}
  /\ ev = "none"

\* the App and the server over either store
SpecStateless == InitStores /\ [][NextClient]_vars

\* ---- the client of the bcrypt variant: App, Login and Dashboard ----
\* It keeps the token only: app.username and ls.username are never written.

\* Login.login after a successful POST
Login_login(a, l, token) ==
  Client([a EXCEPT !.token = token], [l EXCEPT !.token = token])

\* Dashboard.predict after the await: setOutput on success, an alert otherwise
Dashboard_predict(a, l, status) ==
  IF status = 200 THEN Client([a EXCEPT !.prediction = "output"], l)
  ELSE Client(a, l)

InitDash == InitRegistered /\ variant = "bcrypt"

\* the Login form, shown while App has no token
DashLogin(u, p) ==
  LET out == login_bcrypt(users, u, p, now)
      rec == [tok |-> out.token, iat |-> now]
      c == IF out.status = 200 THEN Login_login(app, ls, out.token) ELSE Client(app, ls)
  IN /\ app.token = NoTok
     /\ out.status = 200 => Cardinality(issued \cup {rec}) <= MaxSessions
     /\ issued' = IF out.status = 200 THEN issued \cup {rec} ELSE issued
     /\ app' = c.app
     /\ ls' = c.ls
     /\ ev' = IF out.status = 200 THEN "login" ELSE "alert"
     /\ UNCHANGED <<config, now, users, logs, resp, racevars, net>>

\* the Submit button of the Dashboard: predict up to its await
DashPredict ==
  /\ app.token # NoTok
  /\ Cardinality(net) < MaxInflight
  /\ net' = net \cup {Msg("req", Bearer(ls.token), Verdict(0, "", "none", FALSE, ""))}
  /\ ev' = "sent"
  /\ UNCHANGED <<config, now, users, issued, logs, resp, racevars, app, ls>>

\* the response arrives
DashReceive(m) ==
  LET c == Dashboard_predict(app, ls, m.status)
  IN /\ m.stage = "resp"
     /\ net' = net \ {m}
     /\ app' = c.app
     /\ ls' = c.ls
     /\ ev' = IF m.status = 200 THEN "response" ELSE "alert"
     /\ UNCHANGED <<config, now, users, issued, logs, resp, racevars>>

\* the call fails in the network: the catch alerts
DashNetFail(m) ==
  /\ net' = net \ {m}
  /\ ev' = "alert"
  /\ UNCHANGED <<config, now, users, issued, logs, resp, racevars, app, ls>>

\* the page is loaded again: App takes its token from localStorage
DashReload ==
  /\ app' = Session(ls.token, "", "")
  /\ net' = {}
  /\ ev' = "reload"
  /\ UNCHANGED <<config, now, users, issued, logs, resp, racevars, ls>>

NextDash ==
  \/ Tick
  \/ \E u \in Usernames, p \in Passwords : DashLogin(u, p)
  \/ DashPredict
  \/ \E m \in net : ServePredict(m)
  \/ \E m \in net : DashReceive(m)
  \/ \E m \in net : DashNetFail(m)
  \/ DashReload

SpecDash == InitDash /\ [][NextDash]_vars

(***************************************************************************)
(* Properties                                                              *)
(***************************************************************************)
Word2(h) == split(h.val)[2]

\* the request carries, as its second word, a token the server issued and
\* that has not reached its expiry
GoodRequest(h) ==
  /\ h.present
  /\ Len(split(h.val)) >= 2
  /\ \E i \in issued : /\ Word2(h) = TokItem(i.tok)
                       /\ i.tok.hasexp => now < i.tok.exp

C2_AcceptedUntilTTL ==
  \A i \in issued :
    resp.op = "predict" /\ resp.hdr = Bearer(i.tok) =>
      /\ now - i.iat < TTL => GuardKind(resp) = "Accepted"
      /\ now - i.iat >= TTL => GuardKind(resp) = "ExpiredToken"

\* C3: register succeeds for a username that is not in the store and only
\* then; for a stored username it fails with DuplicateUser and leaves the
\* store, and so the stored password hash, as it was.
C3_RegisterOnce ==
  [][resp'.op = "register" =>
       IF \E r \in users : r.username = resp'.u
       THEN /\ resp'.status \in {409, 400}
            /\ resp'.body \in {"User already exists", "Username already exists"}
            /\ users' = users
       ELSE /\ resp'.status \in {201, 200}
            /\ \E r \in users' : /\ r.username = resp'.u /\ r.password.of = resp'.p
                                 /\ users' = users \cup {r}]_vars

C3_Witness ==
  /\ resp.op = "register" /\ resp.status \in {409, 400}
  /\ \E r \in users : r.username = resp.u /\ r.password.of # resp.p

\* C5: login with the registered password succeeds and returns a token
\* whose exp claim is strictly greater than the time of issuance.
C5_LoginTokenExpiry ==
  resp.op = "login" /\ (\E r \in users : r.username = resp.u /\ r.password.of = resp.p)
    => /\ resp.status = 200
       /\ resp.token.hasexp /\ resp.token.exp > now

\* C6: login with a wrong password and login with an unknown username both
\* fail with status 401 and the same InvalidCredentials response, and issue
\* no token.
C6_InvalidCredentials ==
  resp.op = "login" /\ ~(\E r \in users : r.username = resp.u /\ r.password.of = resp.p)
    => /\ resp.status = 401
       /\ resp.body = "Invalid credentials"
       /\ resp.token = NoTok

\* the second word of the header is a three-part HS256 token whose
\* signature is not the one the server's key gives for its claims
BadSignature(h) ==
  /\ h.present /\ Len(split(h.val)) >= 2 /\ Word2(h).k = "tok"
  /\ LET tok == Word2(h).tok
     IN /\ tok.parts = 3 /\ tok.alg = "HS256"
        /\ tok.sig # Sign(tok.alg, tok.ckey, tok.sub, tok.hasexp, tok.exp,
                          secret)

\* C7: a token whose signature is not the issuer's signature of its claims
\* is rejected as InvalidSignature, expired or not, and predict does not run.
C7_BadSignatureRejected ==
  resp.op = "predict" /\ BadSignature(resp.hdr)
    => GuardKind(resp) = "InvalidSignature" /\ ~resp.ran /\ resp.status \in {401, 403}

C7_Witness ==
  /\ resp.op = "predict" /\ BadSignature(resp.hdr)
  /\ Word2(resp.hdr).tok.hasexp /\ Word2(resp.hdr).tok.exp > now
  /\ Word2(resp.hdr).tok.sub \in {r.username : r \in users}

NoAuthorization(h) == ~h.present \/ h.val = <<>>

Unparseable(h) ==
  /\ ~NoAuthorization(h)
  /\ \/ Len(split(h.val)) < 2
     \/ AsToken(Word2(h)).parts # 3

\* C8: a request without an Authorization value is rejected as MissingToken,
\* one whose value does not parse into the three token parts as MalformedToken.
C8_MissingAndMalformed ==
  resp.op = "predict" =>
    /\ NoAuthorization(resp.hdr) => GuardKind(resp) = "MissingToken"
    /\ Unparseable(resp.hdr) => GuardKind(resp) = "MalformedToken"

GuardFailures == {"MissingToken", "MalformedToken", "InvalidSignature", "ExpiredToken"}

\* C9: any two requests the Guard rejects get the same HTTP status.
C9_UniformStatus ==
  [][/\ resp.op = "predict" /\ GuardKind(resp) \in GuardFailures
     /\ resp'.op = "predict" /\ GuardKind(resp') \in GuardFailures
     => resp'.status = resp.status]_vars

\* C4: of the register requests that run concurrently for one username
\* exactly one succeeds, every other one receives DuplicateUser, and the
\* store holds at most one row for the username, with the winner's hash.
C4_OneWinner ==
  \A u \in Usernames :
    LET rows == {r \in users : r.username = u}
        done == {i \in Procs : reg[i].pc = "done" /\ reg[i].u = u}
        winners == {i \in done : reg[i].status \in {201, 200}}
    IN /\ Cardinality(rows) <= 1
       /\ Cardinality(winners) <= 1
       /\ (\A i \in Procs : reg[i].pc = "done") /\ done # {} => Cardinality(winners) = 1
       /\ done \ winners # {} => rows # {}
       /\ \A i \in winners : \A r \in rows : r.password = reg[i].pw
       /\ \A i \in winners : rows # {}
       /\ \A i \in done \ winners :
             /\ reg[i].status \in {409, 400}
             /\ reg[i].body \in {"User already exists", "Username already exists"}

C4_Witness ==
  /\ \A i \in Procs : reg[i].pc = "done" /\ reg[i].u = "alice"
  /\ reg[1].p # reg[2].p
  /\ reg[2].status \in {201, 200}
  /\ reg[1].status \in {409, 400}

\* C10: when the response to a protected call is a Guard rejection, the App
\* ends the step unauthenticated, with token and username removed from its
\* state and from localStorage.
C10_RejectionClearsSession ==
  [][\A m \in net :
       m.stage = "resp" /\ GuardKind(m) \in GuardFailures /\ m \notin net'
         => /\ app'.token = NoTok /\ app'.username = ""
            /\ ls'.token = NoTok /\ ls'.username = ""]_vars

\* C11: the App is Anonymous (no token) or Authenticated (a token). It becomes
\* Authenticated only in a login step, with the token that login issued, and
\* leaves Authenticated only by logout, by the expiry check at load, or by a
\* rejected call; a reload or a late response never restores a session.
Authenticated == app.token # NoTok

C11_SessionTransitions ==
  [][/\ (~Authenticated /\ Authenticated')
          => /\ ev' = "login"
             /\ \E i \in issued' : i.tok = app'.token /\ i.iat = now
     /\ (Authenticated /\ ~Authenticated')
          => ev' \in {"logout", "expired", "rejected"}]_vars

\* a second session: a fresh login after the first session ended
C11_Witness ==
  /\ ev = "login"
  /\ Authenticated
  /\ \E i \in issued : i.tok # app.token

\* C12: when the expiry check runs at load on a stored token whose exp the
\* clock has passed, the App is left without token and username, in state and
\* in localStorage, and no protected call is in flight.
C12_ExpiredAtLoadLogsOut ==
  /\ ev = "reload" => ~(ls.token # NoTok /\ ls.token.hasexp /\ now > ls.token.exp)
  /\ ev = "expired" => /\ app.token = NoTok /\ app.username = ""
                       /\ ls.token = NoTok /\ ls.username = ""
  /\ ev \in {"reload", "expired"} => net = {}

C12_Witness ==
  /\ ev = "expired"
  /\ ~Authenticated
  /\ \E i \in issued : i.tok.hasexp /\ now > i.tok.exp

\* C13: after logout the App has no token and no username, neither in its
\* state nor in localStorage, whatever the token was and whatever calls are
\* in flight.
C13_LogoutClears ==
  ev = "logout" => /\ app.token = NoTok /\ app.username = ""
                   /\ ls.token = NoTok /\ ls.username = ""

\* logout while a call is in flight
C13_Witness ==
  /\ ev = "logout"
  /\ net # {}
  /\ ls.token = NoTok

\* C15: every outcome of the protected call other than success (a network
\* failure, any status other than 200) ends with the session cleared.
C15_FailureClearsSession ==
  [][\A m \in net :
       /\ m \notin net'
       /\ net' \subseteq net
       /\ \/ ev' = "neterror"
          \/ ev' \in {"response", "rejected"} /\ m.status # 200
       => /\ app'.token = NoTok /\ app'.username = ""
          /\ ls'.token = NoTok /\ ls'.username = ""]_vars

\* C14: a successful login leaves the client Authenticated with the token and
\* the username of the user in localStorage; a reload that finds the stored
\* session starts Authenticated with that same token and username.
C14_LoginPersists ==
  /\ ev = "login" => /\ Authenticated
                     /\ ls.token = app.token
                     /\ ls.username = app.token.sub
                     /\ app.username = app.token.sub
  /\ (ev = "reload" /\ ls.token # NoTok)
       => /\ app.token = ls.token
          /\ app.username = ls.username
          /\ ls.username = ls.token.sub

\* C16: a register or login that meets an unavailable store is answered as
\* a failure of its own: not a success, not DuplicateUser, not
\* InvalidCredentials, no token, and the store is unchanged.
C16_StoreUnavailable ==
  [][resp'.exc = "OperationalError" =>
       /\ resp'.status \notin {200, 201}
       /\ resp'.body \notin {"User already exists", "Username already exists",
                             "Invalid credentials"}
       /\ resp'.token = NoTok
       /\ users' = users]_vars

\* C17: every stored password is the hasher's output for some salt, never
\* the password itself, and a login succeeds only when the hasher's check of
\* the presented password against the stored value succeeds.
C17_HashedAtRest ==
  /\ \A r \in users : /\ r.password # plaintext(r.password.of)
                       /\ \E salt \in Salts : r.password = hashpw(r.password.of, salt)
  /\ resp.op = "login" /\ resp.status = 200
       => \E r \in users : r.username = resp.u /\ checkpw(resp.p, r.password)

\* the token a predict request presents: the second word of its header
Presents(h) == h.present /\ Len(split(h.val)) >= 2

Presented(h) == AsToken(Word2(h))

SignatureVerifies(tok) ==
  /\ tok.parts = 3 /\ tok.alg = "HS256"
  /\ tok.sig = Sign(tok.alg, tok.ckey, tok.sub, tok.hasexp, tok.exp, secret)

\* C18 as stated: a presented token is accepted exactly when its signature
\* verifies and now <= exp; at now = exp it is accepted.
C18_AcceptedThroughExpiry ==
  resp.op = "predict" /\ Presents(resp.hdr) =>
    LET tok == Presented(resp.hdr)
    IN resp.ran <=> (SignatureVerifies(tok) /\ (tok.hasexp => now <= tok.exp))

\* C18, amended: a presented token is accepted exactly when its signature
\* verifies and, if it carries exp, now < exp; at now = exp it is rejected.
C18_AcceptedBeforeExpiry ==
  resp.op = "predict" /\ Presents(resp.hdr) =>
    LET tok == Presented(resp.hdr)
    IN resp.ran <=> (SignatureVerifies(tok) /\ (tok.hasexp => now < tok.exp))

\* a correctly signed token presented at exactly its expiry, and rejected
C18_Witness ==
  /\ resp.op = "predict" /\ Presents(resp.hdr)
  /\ SignatureVerifies(Presented(resp.hdr))
  /\ Presented(resp.hdr).hasexp /\ now = Presented(resp.hdr).exp
  /\ ~resp.ran

\* the first check that fails, in the order absent, malformed, signature, expiry
FirstFailing(h) ==
  IF NoAuthorization(h) THEN "MissingToken"
  ELSE IF Unparseable(h) \/ Presented(h).alg # "HS256" THEN "MalformedToken"
  ELSE IF ~SignatureVerifies(Presented(h)) THEN "InvalidSignature"
  ELSE IF Presented(h).hasexp /\ Presented(h).exp <= now THEN "ExpiredToken"
  ELSE "Accepted"

C20_IssuedTokenClaims ==
  /\ resp.op = "login" /\ resp.status = 200
       => /\ resp.token.sub = resp.u
          /\ resp.token.hasexp /\ resp.token.exp = now + TTL
  /\ \A i \in issued : i.tok.hasexp /\ i.tok.exp = i.iat + TTL

C22_VerdictStateless ==
  [][\A m \in net' \ net :
       m.stage = "resp" =>
         /\ GuardKind(m) = FirstFailing(m.hdr)
         /\ m.ran => m.user = Presented(m.hdr).sub]_vars

\* an accepted call whose token the client no longer holds, its subject
\* having logged in again, on the larger store
C22_Witness ==
  /\ \E m \in net : /\ m.stage = "resp" /\ m.ran
                     /\ ls.token # Presented(m.hdr)
                     /\ \E i \in issued : i.tok # Presented(m.hdr) /\ i.tok.sub = m.user
  /\ \E r \in users : r.username = "carol"

\* C23: the secret changes in no step but a restart, and once a restart has
\* changed it every token issued under the earlier secret is rejected, as
\* InvalidSignature, expired or not.
C23_SecretRotation ==
  /\ [][secret' # secret => resp'.op = "restart"]_vars
  /\ [](resp.op = "predict" /\ Presents(resp.hdr)
          /\ (\E i \in issued : /\ i.tok = Presented(resp.hdr)
                                /\ i.tok.sig.key # secret)
          => ~resp.ran /\ GuardKind(resp) = "InvalidSignature")

\* an unexpired token of before the rotation has been presented and refused
C23_Witness ==
  /\ resp.op = "predict" /\ ~resp.ran
  /\ secret # SECRET_KEY(variant)
  /\ \E i \in issued : /\ resp.hdr = Bearer(i.tok)
                        /\ i.tok.sig.key = SECRET_KEY(variant)
                        /\ i.tok.hasexp => now < i.tok.exp

\* C24: in the React App the token and the username of the component state
\* are those of localStorage, after every operation: both present and equal,
\* or both absent.
C24_StateMirrorsStorage ==
  /\ app.token = ls.token
  /\ app.username = ls.username
  /\ (app.token = NoTok) <=> (app.username = "")

\* a session restored by a reload
C24_Witness ==
  /\ ev = "reload"
  /\ app.token # NoTok /\ app.username = "alice"
  /\ ls.token = app.token /\ ls.username = "alice"

\* C25: a 401 clears the session only when it answers a call sent with the
\* token now stored: when it answers a call of an earlier session, the token
\* and username of the present session stay.
C25_LateRejectionSpared ==
  [][\A m \in net :
       /\ m.stage = "resp" /\ m.status = 401
       /\ m \notin net' /\ ev' \in {"rejected", "response"}
       /\ ls.token # NoTok /\ m.hdr # Bearer(ls.token)
       => /\ ls' = ls
          /\ app'.token = app.token /\ app'.username = app.username]_vars

\* C26: a session starts with no prediction in the App's state: what an
\* earlier session's call returned, before or after that session ended, is
\* not there when the next user has logged in and has made no call yet.
C26_NoPredictionCarriedOver ==
  ev = "login" => app.prediction = ""

\* C27: whatever the Authorization header, the Guard rejects or runs the
\* operation; it never ends in an unhandled error.
C27_NoUnhandledError ==
  resp.op = "predict" => GuardKind(resp) # "Unhandled" /\ resp.status # 500

\* C28: a client that holds a token past its expiry and keeps being used
\* eventually is Anonymous, the token gone from localStorage.
C28_ExpiredEventuallyAnonymous ==
  (Authenticated /\ ls.token.hasexp /\ now > ls.token.exp)
    ~> (~Authenticated /\ ls.token = NoTok)

\* C29: on the same clock the App's expiry test and the Guard's agree on the
\* stored token at every time: the App would discard it exactly when the
\* Guard would reject it as expired.
C29_PreCheckAgreesWithGuard ==
  ls.token # NoTok =>
    (PastExpiry(ls.token, now)
       <=> GuardKind(token_required(variant, Bearer(ls.token), now)) = "ExpiredToken")

\* C30: the Guard runs the operation only for a header made of the scheme
\* word Bearer and the token, nothing else.
C30_BearerSchemeOnly ==
  resp.op = "predict" /\ resp.ran
    => /\ Len(split(resp.hdr.val)) = 2
       /\ split(resp.hdr.val)[1] = Word("Bearer")

====
